---- MODULE Spec2Model ----
(***************************************************************************)
(* HydrogenBondAutoCorrel (MDAnalysis.analysis.hbonds.hbond_autocorrel).   *)
(*                                                                         *)
(* The constructor arguments and the trajectory are the inputs; the object *)
(* is built by Construct, and run / solve / save_results are then called   *)
(* in any order.  run is followed through its window loop and each window  *)
(* pass (_single_run) through its frame loop.                              *)
(*                                                                         *)
(* Geometry is abstracted to what the code reads of it: frame f of the     *)
(* trajectory is the set of (hydrogen, acceptor) index pairs that satisfy  *)
(* distance < d_crit and angle > a_crit in that frame.  For a hydrogen     *)
(* index that has no donor (h > len(donors)) the angle cannot be computed  *)
(* and membership means distance < d_crit alone.  Indices are 1-based,     *)
(* frames are numbered from 0.  Floating point values are exact rationals  *)
(* <<num, den>>, with 0/0 the NaN numpy produces.                          *)
(*                                                                         *)
(* A lifetime mode is the branch that the tests on bond_type select.       *)
(***************************************************************************)
EXTENDS Integers, Sequences, FiniteSets, TLC

VARIABLES
    u,          \* the universe: trajectory frames, numframes, dt, sliceable
    args,       \* the constructor's arguments
    ts,         \* the trajectory's current frame (its cursor)
    starts,     \* self._starts
    stops,      \* self._stops
    skip,       \* self._skip
    solution,   \* self.solution
    pc,         \* position: new, failed, idle, seed, loop, norm, acc, fin
    raised,     \* the exception the last finished call raised, "" for none
    run,        \* locals of run(): force, master_results, counter, w
    win,        \* locals of _single_run(): start, stop, hidx, aidx, count,
                \* nbonds, results, i, nproc
    lastCall    \* the method called last: "", run, run_force, solve,
                \* save_results

vars ==
    <<u, args, ts, starts, stops, skip, solution, pc, raised, run, win,
      lastCall>>

----------------------------------------------------------------------------
(* Bounds of the input families *)

MaxFrames == 2         \* window family: trajectories of 1..MaxFrames frames
MaxCut == 2            \* forgiveness times 0..MaxCut
MaxPlanFrames == 3     \* planning family: trajectories of 1..MaxPlanFrames
MaxRuns == 3           \* planning family: nruns in 1..MaxRuns
MaxSample == 3         \* planning family: sample_time in 1..MaxSample
MaxNsamples == 2       \* planning family: nsamples in 1..MaxNsamples
MaxDt == 2             \* planning family: dt in 1..MaxDt
MaxCfgSel == 2         \* construction family: lengths in 1..MaxCfgSel
ScenarioTriples == 3   \* scenario family: donor-hydrogen-acceptor triples
ScenarioFrames == 5    \* scenario family: frames
MaxExcl == 1           \* exclusion family: exclusion arrays of length 1..MaxExcl
MaxExclFrames == 2     \* exclusion family: trajectories of 1..MaxExclFrames

(* The window and exclusion families take every geometry of a frame, any
   subset of the n x n pairs, so their selections stay at n <= 2 atoms. *)
SelSizes == {1, 2}

----------------------------------------------------------------------------
(* Optional values: None, or a value wrapped by Some *)

None == << >>
Some(x) == <<x>>
IsNone(o) == o = None
Val(o) == o[1]

Min(a, b) == IF a <= b THEN a ELSE b

(* mutant: any time_cut that is given counts, 0 included *)
TruthyWhenGiven(tc) == ~IsNone(tc)

(* Python's truth value of time_cut: None and 0 are false *)
Truthy(tc) == ~IsNone(tc) /\ Val(tc) # 0

----------------------------------------------------------------------------
(* numpy float arithmetic, exact: <<num, den>> in lowest terms *)

RECURSIVE GCD(_, _)
GCD(a, b) == IF b = 0 THEN a ELSE GCD(b, a % b)

NaN == <<0, 0>>
Inf == <<1, 0>>
Zero == <<0, 1>>
One == <<1, 1>>

Norm(n, d) ==
    IF d = 0 THEN (IF n = 0 THEN NaN ELSE Inf)
    ELSE LET g == GCD(n, d) IN <<n \div g, d \div g>>

AddF(a, b) ==
    IF a = NaN \/ b = NaN THEN NaN
    ELSE IF a[2] = 0 \/ b[2] = 0 THEN Inf
    ELSE Norm(a[1] * b[2] + b[1] * a[2], a[2] * b[2])

DivF(a, k) ==
    IF a = NaN THEN NaN
    ELSE IF a[2] = 0 THEN Inf
    ELSE Norm(a[1], a[2] * k)

(* IEEE comparison: every comparison with NaN is false *)
LeqF(a, b) == a # NaN /\ b # NaN /\ a[1] * b[2] <= b[1] * a[2]

----------------------------------------------------------------------------
(* numpy array helpers *)

(* numpy.arange(start, stop, step) for step > 0: its length and elements *)
ArangeLen(start, stop, step) ==
    IF stop <= start THEN 0 ELSE ((stop - start) + step - 1) \div step

Arange(start, stop, step) ==
    [k \in 1..ArangeLen(start, stop, step) |-> start + (k - 1) * step]

(* a[mask] for a boolean mask of the same length *)
RECURSIVE Compress(_, _)
Compress(s, m) ==
    IF s = << >> THEN << >>
    ELSE (IF Head(m) THEN <<Head(s)>> ELSE << >>) \o Compress(Tail(s), Tail(m))

(* the index pairs of an n x m matrix in row-major order (numpy.where) *)
RowMajor(n, m) ==
    [k \in 1..(n * m) |-> <<((k - 1) \div m) + 1, ((k - 1) % m) + 1>>]

PairSet(n, m) == (1..n) \X (1..m)

----------------------------------------------------------------------------
(* The inputs: a universe and the constructor's arguments *)

Universe(F, step, ok, fr) ==
    [numframes |-> F, dt |-> step, sliceable |-> ok, frames |-> fr]

Arguments(h, a, d, ex, bt, tc, nr, ns, st) ==
    [nh |-> h, na |-> a, nd |-> d, exclusions |-> ex, bond_type |-> bt,
     time_cut |-> tc, nruns |-> nr, nsamples |-> ns, sample_time |-> st]

Modes ==
    {<<"continuous", None>>} \cup
    {<<"intermittent", tc>> : tc \in {None} \cup {Some(c) : c \in 0..MaxCut}}

PlanModes ==
    {<<"continuous", None>>, <<"intermittent", None>>,
     <<"intermittent", Some(MaxCut)>>}

(* every geometry over a small universe, one window over the whole
   trajectory at stride 1 *)
InitWin ==
    \E n \in SelSizes, F \in 1..MaxFrames, m \in Modes :
    \E fr \in [0..(F - 1) -> SUBSET PairSet(n, n)] :
        /\ u = Universe(F, 1, TRUE, fr)
        /\ args = Arguments(n, n, n, None, m[1], m[2], 1, F, F)

(* exclusion arrays, over a geometry that does not change with time *)
InitExcl ==
    \E n \in SelSizes, F \in 1..MaxExclFrames, m \in Modes, len \in 1..MaxExcl :
    \E g \in SUBSET PairSet(n, n),
       exH \in [1..len -> 1..n], exA \in [1..len -> 1..n] :
        /\ u = Universe(F, 1, TRUE, [f \in 0..(F - 1) |-> g])
        /\ args = Arguments(n, n, n, Some(<<exH, exA>>), m[1], m[2], 1, F, F)

(* window planning and aggregation: one hydrogen-acceptor pair *)
InitPlan ==
    \E F \in 1..MaxPlanFrames, step \in 1..MaxDt, nr \in 1..MaxRuns,
       ns \in 1..MaxNsamples, st \in 1..MaxSample, m \in PlanModes :
    \E fr \in [0..(F - 1) -> SUBSET PairSet(1, 1)] :
        /\ u = Universe(F, step, TRUE, fr)
        /\ args = Arguments(1, 1, 1, None, m[1], m[2], nr, ns, st)

(* construction: selection lengths, exclusion arrays, mode, slicing; the
   single frame has every pair within range, or none *)
InitCfg ==
    \E h \in 1..MaxCfgSel, a \in 1..MaxCfgSel, d \in 1..MaxCfgSel,
       ok \in BOOLEAN, bt \in {"continuous", "intermittent", "other"},
       ex \in {None, Some(<<<<1>>, <<1>>>>), Some(<<<<1>>, << >>>>)} :
    \E g \in {{}, PairSet(h, a)} :
        /\ u = Universe(1, 1, ok, [f \in 0..0 |-> g])
        /\ args = Arguments(h, a, d, ex, bt, None, 1, 1, 1)

(* the end-to-end scenario: every hydrogen is bonded to every acceptor but
   its own in the first frame; two bonds of the last hydrogen are fragile
   and each may be broken in any later frame *)
ScenarioSeed ==
    {p \in PairSet(ScenarioTriples, ScenarioTriples) : p[1] # p[2]}

ScenarioFragile == {<<ScenarioTriples, 1>>, <<ScenarioTriples, 2>>}

InitScenario ==
    \E m \in Modes :
    \E fr \in [0..(ScenarioFrames - 1) ->
                  {ScenarioSeed \ x : x \in SUBSET ScenarioFragile}] :
        /\ fr[0] = ScenarioSeed
        /\ u = Universe(ScenarioFrames, 1, TRUE, fr)
        /\ args = Arguments(ScenarioTriples, ScenarioTriples, ScenarioTriples,
                            None, m[1], m[2], 1, ScenarioFrames, ScenarioFrames)

NoRun == [force |-> FALSE, master_results |-> << >>, counter |-> << >>, w |-> 0]

NoWin ==
    [start |-> 0, stop |-> 0, hidx |-> << >>, aidx |-> << >>, count |-> << >>,
     nbonds |-> 0, results |-> << >>, i |-> 0, nproc |-> 0]

NoSolution ==
    [results |-> None, time |-> None, fit |-> None, tau |-> None,
     estimate |-> None, ier |-> None]

Init ==
    /\ InitWin \/ InitExcl \/ InitPlan \/ InitCfg \/ InitScenario
    /\ ts = 0
    /\ starts = << >>
    /\ stops = << >>
    /\ skip = 0
    /\ solution = NoSolution
    /\ pc = "new"
    /\ raised = ""
    /\ run = NoRun
    /\ win = NoWin
    /\ lastCall = ""

----------------------------------------------------------------------------
(* __init__ and _slice_traj *)

(* the selection-length test of __init__, as Python parses it:
   (not (len(h) == len(a))) and (len(a) == len(d)) *)
LengthCheckFails == (~(args.nh = args.na)) /\ (args.na = args.nd)

ExclusionCheckFails ==
    /\ ~IsNone(args.exclusions)
    /\ Len(Val(args.exclusions)[1]) # Len(Val(args.exclusions)[2])

BondTypeCheckFails == args.bond_type \notin {"continuous", "intermittent"}

ReqFrames == args.sample_time \div u.dt

NumRuns == IF args.nruns > u.numframes THEN u.numframes ELSE args.nruns

Starts == Arange(0, u.numframes, u.numframes \div NumRuns)

Stops == [k \in DOMAIN Starts |-> Min(Starts[k] + ReqFrames, u.numframes)]

Skip ==
    IF ReqFrames \div args.nsamples = 0 THEN 1
    ELSE ReqFrames \div args.nsamples

Construct ==
    /\ pc = "new"
    /\ IF \/ ~u.sliceable
          \/ LengthCheckFails
          \/ ExclusionCheckFails
          \/ BondTypeCheckFails
       THEN /\ pc' = "failed"
            /\ raised' = "ValueError"
            /\ UNCHANGED <<starts, stops, skip>>
       ELSE /\ pc' = "idle"
            /\ raised' = ""
            /\ starts' = Starts
            /\ stops' = Stops
            /\ skip' = Skip
    /\ UNCHANGED <<u, args, ts, solution, run, win, lastCall>>

----------------------------------------------------------------------------
(* _single_run: one pass over the window [start, stop) *)

(* the window's mode: the branch taken by the tests on bond_type *)
Continuous == args.bond_type = "continuous"
Intermittent == args.bond_type = "intermittent"
Forgiving == Intermittent /\ Truthy(args.time_cut)

(* mutant: the seek is left out and the seed is read where the cursor was *)
SeekFrameStale(start) == ts

(* self.u.trajectory[start]: the frame the cursor is moved to *)
SeekFrame(start) == start

(* d[self.exclusions] = d_crit + 1: the pairs forced out of range *)
Excluded ==
    IF IsNone(args.exclusions) THEN {}
    ELSE LET ex == Val(args.exclusions)
         IN {<<ex[1][j], ex[2][j]>> : j \in 1..Len(ex[1])}

(* mutant: the distances of the excluded pairs are left as measured *)
SeedPairsUnmasked(f) ==
    SelectSeq(RowMajor(args.nh, args.na), LAMBDA p : p \in u.frames[f])

(* the seed at frame f: numpy.where(d < d_crit) in row-major order, then
   the angle test *)
SeedPairs(f) ==
    SelectSeq(RowMajor(args.nh, args.na),
              LAMBDA p : p \in u.frames[f] /\ p \notin Excluded)

(* self.d.positions[hidx] raises IndexError for an index beyond the donors *)
DonorIndexError(f) ==
    \E j \in 1..Len(SeedPairs(f)) : SeedPairs(f)[j][1] > args.nd

(* numpy.zeros_like(numpy.arange(start, stop, self._skip)) *)
ResultsAlloc(start, stop) ==
    [k \in 1..ArangeLen(start, stop, skip) |-> Zero]

(* the frame of iteration i of self.u.trajectory[start:stop:self._skip] *)
FrameAt(start, i) == start + i * skip

(* winners = (d < d_crit) & (a > a_crit) for the tracked pairs *)
Winners(hidx, aidx, f) ==
    [j \in 1..Len(hidx) |-> <<hidx[j], aidx[j]>> \in u.frames[f]]

Count(mask) == Cardinality({j \in DOMAIN mask : mask[j]})

(* mutant: the losers are not removed *)
ContinuousKeepAll(winners) == [j \in DOMAIN winners |-> TRUE]

(* continuous: the mask of the candidates kept, numpy.where(winners) *)
ContinuousKeep(winners) == winners

(* count[~winners] += self._skip * dt; count[winners] = 0 *)
CountUpdate(count, winners) ==
    [j \in DOMAIN count |->
        IF winners[j] THEN 0 ELSE count[j] + skip * u.dt]

(* mutant: a counter equal to the time_cut is still forgiven *)
ForgivenessKeepInclusive(count, tc) ==
    [j \in DOMAIN count |-> count[j] <= Val(tc)]

(* intermittent with a time_cut: the mask count < self.time_cut *)
ForgivenessKeep(count, tc) ==
    [j \in DOMAIN count |-> count[j] < Val(tc)]

(* mutant: the loop has no break *)
LoopNeverBreaks(hidx) == FALSE

(* len(hidx) == 0: once everyone has lost, the fun stops *)
LoopBreaks(hidx) == Len(hidx) = 0

(* mutant: the counts are divided by the number of sampled frames *)
NormalisedByLength(results, nbonds) ==
    [k \in DOMAIN results |-> DivF(results[k], Len(results))]

(* results /= nbonds *)
Normalised(results, nbonds) ==
    [k \in DOMAIN results |-> DivF(results[k], nbonds)]

(* mutant: the curve is cut to the frames processed before it is returned *)
ReturnedCurveTruncated(w) ==
    SubSeq(Normalised(w.results, w.nbonds), 1, w.nproc)

(* results /= nbonds; return results *)
ReturnedCurve(w) == Normalised(w.results, w.nbonds)

(* the locals of _single_run when its frame loop is entered *)
SeedWindow(start, stop, tc) ==
    LET seed == SeedPairs(SeekFrame(start))
    IN [start |-> start, stop |-> stop,
        hidx |-> [j \in DOMAIN seed |-> seed[j][1]],
        aidx |-> [j \in DOMAIN seed |-> seed[j][2]],
        count |-> IF Truthy(tc) THEN [j \in DOMAIN seed |-> 0] ELSE << >>,
        nbonds |-> Len(seed),
        results |-> ResultsAlloc(start, stop), i |-> 0, nproc |-> 0]

(* mutant: without a time_cut the losers are removed as well *)
IntermittentKeepWinners(winners) == winners

(* intermittent without a time_cut: else: pass, nothing is removed *)
IntermittentKeep(winners) == [j \in DOMAIN winners |-> TRUE]

(* mutant: only the hydrogen indices are filtered *)
FilterTrackedHydrogens(w, keep, cnt, timed) ==
    [w EXCEPT !.hidx = Compress(w.hidx, keep),
              !.count = IF timed THEN Compress(cnt, keep) ELSE cnt]

(* hidx, aidx and, with a time_cut, count are indexed by the same mask *)
FilterTracked(w, keep, cnt, timed) ==
    [w EXCEPT !.hidx = Compress(w.hidx, keep),
              !.aidx = Compress(w.aidx, keep),
              !.count = IF timed THEN Compress(cnt, keep) ELSE cnt]

(* mutant: the candidates are found again by a scan of the whole frame *)
IterateFrameRescan(w, bt, tc) ==
    LET f == FrameAt(w.start, w.i)
        winners == Winners(w.hidx, w.aidx, f)
        seed == SeedPairs(f)
    IN [w EXCEPT !.results = [w.results EXCEPT
                                 ![w.i + 1] = <<Count(winners), 1>>],
                 !.hidx = [j \in DOMAIN seed |-> seed[j][1]],
                 !.aidx = [j \in DOMAIN seed |-> seed[j][2]],
                 !.count = IF Truthy(tc) THEN [j \in DOMAIN seed |-> 0]
                           ELSE << >>,
                 !.i = w.i + 1,
                 !.nproc = w.nproc + 1]

(* one iteration of the frame loop, for the mode (bt, tc) *)
IterateFrame(w, bt, tc) ==
    LET f == FrameAt(w.start, w.i)
        winners == Winners(w.hidx, w.aidx, f)
        timed == bt = "intermittent" /\ Truthy(tc)
        cnt == IF timed THEN CountUpdate(w.count, winners) ELSE w.count
        keep == IF bt = "continuous" THEN ContinuousKeep(winners)
                ELSE IF timed THEN ForgivenessKeep(cnt, tc)
                ELSE IntermittentKeep(winners)
    IN [FilterTracked(w, keep, cnt, timed) EXCEPT
            !.results = [w.results EXCEPT
                            ![w.i + 1] = <<Count(winners), 1>>],
            !.i = w.i + 1,
            !.nproc = w.nproc + 1]

(* the frame loop is left: by the break, or at the end of the slice *)
LoopEnds(w) == LoopBreaks(w.hidx) \/ w.i = Len(w.results)

SingleRunSeed ==
    /\ pc = "seed"
    /\ LET start == starts[run.w]
           stop == stops[run.w]
           f == SeekFrame(start)
       IN /\ ts' = f
          /\ IF DonorIndexError(f)
             THEN /\ pc' = "idle"
                  /\ raised' = "IndexError"
                  /\ run' = NoRun
                  /\ win' = NoWin
             ELSE /\ win' = SeedWindow(start, stop, args.time_cut)
                  /\ pc' = IF Len(win'.results) = 0 THEN "norm" ELSE "loop"
                  /\ UNCHANGED <<raised, run>>
    /\ UNCHANGED <<u, args, starts, stops, skip, solution, lastCall>>

LoopStep ==
    /\ pc = "loop"
    /\ ts' = FrameAt(win.start, win.i)
    /\ win' = IterateFrame(win, args.bond_type, args.time_cut)
    /\ pc' = IF LoopEnds(win') THEN "norm" ELSE "loop"
    /\ UNCHANGED <<u, args, starts, stops, skip, solution, raised, run,
                   lastCall>>

(* the whole frame loop, and the curve a window pass returns in mode
   (bt, tc): the iterations above, repeated until the loop is left *)
RECURSIVE RunLoop(_, _, _)
RunLoop(w, bt, tc) ==
    IF Len(w.results) = 0 \/ (w.i > 0 /\ LoopEnds(w)) THEN w
    ELSE RunLoop(IterateFrame(w, bt, tc), bt, tc)

SingleRun(start, stop, bt, tc) ==
    ReturnedCurve(RunLoop(SeedWindow(start, stop, tc), bt, tc))

SingleRunReturn ==
    /\ pc = "norm"
    /\ win' = [win EXCEPT !.results = ReturnedCurve(win)]
    /\ pc' = "acc"
    /\ UNCHANGED <<u, args, ts, starts, stops, skip, solution, raised, run,
                   lastCall>>

----------------------------------------------------------------------------
(* run *)

(* mutant: the test of force is inverted *)
RunSkipsWhenForced(force) == ~IsNone(solution.results) /\ force

(* if results exist, don't waste any time *)
RunSkips(force) == ~IsNone(solution.results) /\ ~force

(* the length of master_results and counter: that of the first window *)
MasterLen == ArangeLen(starts[1], stops[1], skip)

(* the locals of run when its window loop is entered *)
StartRun(force) ==
    [force |-> force,
     master_results |-> [k \in 1..MasterLen |-> Zero],
     counter |-> [k \in 1..MasterLen |-> 0],
     w |-> 1]

RunCall(force) ==
    /\ pc = "idle"
    /\ raised' = ""
    /\ IF RunSkips(force)
       THEN UNCHANGED <<pc, run>>
       ELSE /\ run' = StartRun(force)
            /\ pc' = "seed"
    /\ lastCall' = IF force THEN "run_force" ELSE "run"
    /\ UNCHANGED <<u, args, ts, starts, stops, skip, solution, win>>

(* mutant: the window's curve is assigned to the prefix, not added to it *)
AccumulatedOverwrite(r, results) ==
    [r EXCEPT
        !.master_results =
            [k \in DOMAIN r.master_results |->
                IF k <= Len(results) THEN results[k] ELSE r.master_results[k]],
        !.counter =
            [k \in DOMAIN r.counter |->
                IF k <= Len(results) THEN 1 ELSE r.counter[k]]]

(* master_results[:nresults] += results; counter[:nresults] += 1.0 (with
   nresults == len(master_results) the prefix is the whole array) *)
Accumulated(r, results) ==
    [r EXCEPT
        !.master_results =
            [k \in DOMAIN r.master_results |->
                IF k <= Len(results)
                THEN AddF(r.master_results[k], results[k])
                ELSE r.master_results[k]],
        !.counter =
            [k \in DOMAIN r.counter |->
                IF k <= Len(results) THEN r.counter[k] + 1
                ELSE r.counter[k]]]

Accumulate ==
    /\ pc = "acc"
    /\ LET nresults == Len(win.results)
       IN IF nresults > Len(run.master_results)
          THEN /\ pc' = "idle"
               /\ raised' = "ValueError"
               /\ run' = NoRun
          ELSE /\ run' = [Accumulated(run, win.results) EXCEPT
                    !.w = IF run.w < Len(starts) THEN run.w + 1 ELSE run.w]
               /\ pc' = IF run.w < Len(starts) THEN "seed" ELSE "fin"
               /\ UNCHANGED raised
    /\ win' = NoWin
    /\ UNCHANGED <<u, args, ts, starts, stops, skip, solution, lastCall>>

(* master_results /= counter *)
Averaged(r) ==
    [k \in DOMAIN r.master_results |->
        DivF(r.master_results[k], r.counter[k])]

(* the time axis and the results are stored *)
TimeAxis(n) == [k \in 1..n |-> (k - 1) * u.dt * skip]

(* mutant: the results are stored without their time axis *)
RunFinishWithoutTime ==
    /\ pc = "fin"
    /\ solution' = [solution EXCEPT !.results = Some(Averaged(run))]
    /\ run' = NoRun
    /\ pc' = "idle"
    /\ UNCHANGED <<u, args, ts, starts, stops, skip, raised, win, lastCall>>

RunFinish ==
    /\ pc = "fin"
    /\ solution' = [solution EXCEPT
            !.time = Some(TimeAxis(Len(run.master_results))),
            !.results = Some(Averaged(run))]
    /\ run' = NoRun
    /\ pc' = "idle"
    /\ UNCHANGED <<u, args, ts, starts, stops, skip, raised, win, lastCall>>

(* the window loop of run with the windows taken in the given order: the
   sum and counter arrays after the last of them *)
RECURSIVE AccumulateAll(_, _)
AccumulateAll(r, order) ==
    IF order = << >> THEN r
    ELSE AccumulateAll(
             Accumulated(r, SingleRun(starts[Head(order)], stops[Head(order)],
                                      args.bond_type, args.time_cut)),
             Tail(order))

----------------------------------------------------------------------------
(* save_results and solve *)

SaveMissing == IsNone(solution.results)

SaveCall ==
    /\ pc = "idle"
    /\ raised' = IF SaveMissing THEN "ValueError" ELSE ""
    /\ lastCall' = "save_results"
    /\ UNCHANGED <<u, args, ts, starts, stops, skip, solution, pc, run, win>>

(* mutant: the test for missing results is inverted *)
SolveMissingInverted == ~IsNone(solution.results)

SolveMissing == IsNone(solution.results)

(* the status codes of leastsq for which a solution was found *)
Converged(ier) == ier \in {1, 2, 3, 4}

(* the status codes leastsq is let to return here *)
IerCodes == {1, 4, 5}

(* the number of coefficients fitted: double or triple exponential *)
NumCoefficients == IF Continuous THEN 3 ELSE 5

(* leastsq is a collaborator: it raises, or returns coefficients and any
   status code *)
SolveCall ==
    /\ pc = "idle"
    /\ IF SolveMissing
       THEN /\ raised' = "ValueError"
            /\ UNCHANGED solution
       ELSE \/ /\ raised' = "TypeError"
               /\ UNCHANGED solution
            \/ \E ier \in IerCodes :
                /\ raised' = ""
                /\ solution' = [solution EXCEPT
                        !.fit = Some(NumCoefficients),
                        !.tau = Some("tau"),
                        !.ier = Some(ier),
                        !.estimate = IF Converged(ier)
                                     THEN Some(solution.time)
                                     ELSE solution.estimate]
    /\ lastCall' = "solve"
    /\ UNCHANGED <<u, args, ts, starts, stops, skip, pc, run, win>>

----------------------------------------------------------------------------
Next ==
    \/ Construct
    \/ \E force \in BOOLEAN : RunCall(force)
    \/ SingleRunSeed
    \/ LoopStep
    \/ SingleRunReturn
    \/ Accumulate
    \/ RunFinish
    \/ SaveCall
    \/ SolveCall

Spec == Init /\ [][Next]_vars

----------------------------------------------------------------------------
(* Properties *)

Constructed == pc \notin {"new", "failed"}

(* the (hydrogen index, acceptor index) pairs a window pass is tracking *)
TrackedPairs(w) == {<<w.hidx[j], w.aidx[j]>> : j \in 1..Len(w.hidx)}

(* the curve of a window pass has just been returned to run *)
Returned == pc = "acc"

(* C1: for every window that samples at least one frame and has a
   non-empty seed (n0 > 0), in every mode, the normalised value at offset 0
   is exactly 1. *)
C1_OffsetZeroIsOne ==
    (Returned /\ Len(win.results) >= 1 /\ win.nbonds > 0)
        => win.results[1] = One

(* a later window (start > 0) of forgiving intermittent mode, non-empty seed *)
C1_Witness ==
    /\ Returned /\ Forgiving
    /\ win.start > 0 /\ win.nbonds > 0
    /\ Len(win.results) >= 1
    /\ win.results[1] = One

(* C2: in continuous mode the curve a window pass returns is non-increasing,
   value[i+1] <= value[i] at all consecutive indices, for every window and
   every geometry. *)
C2_ContinuousNonIncreasing ==
    (Returned /\ Continuous)
        => \A k \in 1..(Len(win.results) - 1) :
               LeqF(win.results[k + 1], win.results[k])

(* C3: for the same window, seed and geometry, the curve of intermittent
   mode without forgiveness is at every index >= the curve of continuous
   mode. *)
C3_IntermittentAboveContinuous ==
    (Returned /\ Intermittent /\ ~Truthy(args.time_cut))
        => LET cont == SingleRun(win.start, win.stop, "continuous", None)
           IN \A k \in 1..Len(win.results) : LeqF(cont[k], win.results[k])

(* C4: in continuous mode with n0 > 0 the value at sampled frame k is the
   number of seed pairs within both criteria at every sampled frame of the
   window up to and including k, divided by n0. *)
C4_ContinuousCountsUnbroken ==
    (Returned /\ Continuous /\ win.nbonds > 0)
        => LET seed == {p \in u.frames[win.start] : p \notin Excluded}
               frame(j) == u.frames[win.start + (j - 1) * skip]
               unbroken(k) == {p \in seed : \A j \in 1..k : p \in frame(j)}
           IN \A k \in 1..Len(win.results) :
                  win.results[k] = Norm(Cardinality(unbroken(k)), win.nbonds)

(* a seed of 6 pairs of which 2 break at frame 3, 5 frames at stride 1 *)
C4_Witness ==
    /\ Returned /\ Continuous
    /\ win.nbonds = 6 /\ skip = 1
    /\ 3 \in DOMAIN u.frames
    /\ Cardinality(u.frames[2] \cap u.frames[0]) = 6
    /\ Cardinality(u.frames[3] \cap u.frames[0]) = 4
    /\ win.results = <<One, One, One, <<2, 3>>, <<2, 3>>>>

(* C5, as claimed: when the tracked set becomes empty the curve returned is
   truncated to the frames processed, its length the number of them. *)
C5_TruncatedToProcessed ==
    (Returned /\ win.nbonds > 0 /\ Len(win.hidx) = 0)
        => Len(win.results) = win.nproc

(* C5, amended: when the tracked set becomes empty the pass stops iterating
   (no iteration is begun with an empty set), and the curve returned keeps
   the nominal window length: every entry after the frames processed is the
   initial zero count divided by n0. *)
C5_StopsAndKeepsNominalLength ==
    /\ (pc = "loop" /\ win.i > 0) => Len(win.hidx) > 0
    /\ Returned =>
        /\ Len(win.results) = ArangeLen(win.start, win.stop, skip)
        /\ win.nproc <= Len(win.results)
        /\ \A k \in (win.nproc + 1)..Len(win.results) :
               win.results[k] = DivF(Zero, win.nbonds)

(* the set emptied before the last sampled frame of a seeded window *)
C5_Witness ==
    /\ Returned /\ win.nbonds > 0 /\ Len(win.hidx) = 0
    /\ win.nproc >= 1 /\ win.nproc < Len(win.results)
    /\ win.results[Len(win.results)] = Zero

(* C6: a window with n0 = 0 produces an all-zero curve, no value of it the
   result of a division by zero, and the averaged curve of a run holding
   such a window is well defined at every index. *)
C6_EmptySeedGivesZeros ==
    /\ (Returned /\ win.nbonds = 0)
           => \A k \in 1..Len(win.results) : win.results[k] = Zero
    /\ (pc = "idle" /\ ~IsNone(solution.results))
           => \A k \in 1..Len(Val(solution.results)) :
                  Val(solution.results)[k] # NaN

(* C7: once results exist, run(force=False) returns without a window pass
   and leaves the solution unchanged, whatever calls came before; results
   are replaced only by a run called with force=True. *)
C7_RunIsNoOpOnceSolved ==
    [][/\ (~IsNone(solution.results) /\ RunCall(FALSE))
              => UNCHANGED <<solution, pc, ts, run, win>>
       /\ (~IsNone(solution.results) /\ pc \in {"seed", "loop", "norm", "acc", "fin"})
              => run.force
       /\ (~IsNone(solution.results) /\ solution'.results # solution.results)
              => (pc = "fin" /\ run.force)]_vars

(* run(force=False) was the last call, made after a solve on existing
   results *)
C7_Witness ==
    /\ pc = "idle" /\ lastCall = "run"
    /\ ~IsNone(solution.results) /\ ~IsNone(solution.estimate)

(* C8: solve or save_results before any run has produced results raises,
   and leaves results, time, fit, tau and estimate absent. *)
C8_SolveAndSaveNeedResults ==
    [][(IsNone(solution.results) /\ (SolveCall \/ SaveCall))
           => (raised' = "ValueError" /\ solution' = NoSolution)]_vars

C8_Witness ==
    /\ pc = "idle" /\ lastCall = "solve"
    /\ raised = "ValueError" /\ solution = NoSolution

(* C9: construction fails whenever the three selections do not all have the
   same length; it passes the length check only when all three are equal. *)
C9_LengthsMustAgree ==
    Constructed => (args.nh = args.na /\ args.na = args.nd)

(* C10: for F >= 1 frames and R >= 1 requested runs the planner produces
   exactly min(R, F) windows, starting at k * floor(F / min(R, F)), and run
   executes exactly that many window passes. *)
C10_PlansMinRunsWindows ==
    LET n == Min(args.nruns, u.numframes)
    IN /\ Constructed =>
            /\ Len(starts) = n
            /\ \A k \in 1..Len(starts) :
                   starts[k] = (k - 1) * (u.numframes \div n)
       /\ pc = "fin" => run.w = n

(* C11: accumulating the per-window curves in any permutation of the planned
   windows gives the same sum array, the same counter array and the same
   quotient at every index as the order run uses. *)
C11_WindowOrderIrrelevant ==
    pc = "fin" =>
        LET n == Len(starts)
            orders == {o \in [1..n -> 1..n] : \A i, j \in 1..n :
                                                  o[i] = o[j] => i = j}
        IN \A o \in orders :
               LET r == AccumulateAll(StartRun(run.force), o)
               IN /\ r.master_results = run.master_results
                  /\ r.counter = run.counter
                  /\ Averaged(r) = Averaged(run)

C11_Witness ==
    /\ pc = "fin" /\ Len(starts) >= 3 /\ Len(run.counter) >= 2
    /\ run.counter[1] > run.counter[Len(run.counter)]
    /\ \E k \in 1..Len(run.counter) :
           /\ run.counter[k] >= 2
           /\ run.master_results[k] \notin {NaN, Zero, <<run.counter[k], 1>>}

(* C12: when run divides the sum by the counter, the counter is at least 1
   at every index: no window's curve is longer than the arrays sized from
   the first window, and some window contributes to every index. *)
C12_CounterAtLeastOne ==
    /\ Returned => Len(win.results) <= Len(run.master_results)
    /\ pc = "fin" =>
           /\ Len(run.counter) = Len(run.master_results)
           /\ \A k \in 1..Len(run.counter) : run.counter[k] >= 1

C12_Witness ==
    /\ pc = "fin" /\ Len(starts) >= 2 /\ Len(run.counter) >= 2
    /\ run.counter[Len(run.counter)] = 1
    /\ run.counter[1] = Len(starts)
    /\ run.master_results[Len(run.counter)] = Zero

(* C13: after a solve call whose solver status is outside {1, 2, 3, 4} the
   estimate curve is absent while the fit coefficients are populated,
   whatever run and solve calls came before. *)
C13_NoEstimateWithoutConvergence ==
    (/\ pc = "idle" /\ lastCall = "solve" /\ raised = ""
     /\ ~IsNone(solution.ier) /\ ~Converged(Val(solution.ier)))
        => (IsNone(solution.estimate) /\ ~IsNone(solution.fit))

(* C14: for a window with n0 > 0, in every lifetime mode, every value of the
   returned curve lies in [0, 1]: the count of surviving candidates at a
   frame never exceeds the seed population n0. *)
C14_CurveWithinUnitInterval ==
    /\ (pc \in {"loop", "norm"} /\ win.nbonds > 0) =>
           \A k \in 1..Len(win.results) :
               /\ win.results[k][2] = 1
               /\ win.results[k][1] \in 0..win.nbonds
    /\ (Returned /\ win.nbonds > 0) =>
           \A k \in 1..Len(win.results) :
               LeqF(Zero, win.results[k]) /\ LeqF(win.results[k], One)

C14_Witness ==
    /\ Returned /\ Forgiving /\ win.nbonds >= 2 /\ Len(win.results) >= 3
    /\ \E k \in 2..Len(win.results) :
           win.results[k] \notin {Zero, One} /\ win.results[k - 1] # One
    /\ \E k \in 2..Len(win.results) : win.results[k] = One

(* C15 as stated: in intermittent mode with a time_cut, at each sampled
   frame a failing candidate's counter grows by stride * dt and a succeeding
   candidate's counter is reset to 0, and then exactly the candidates whose
   counter exceeds time_cut are dropped (a counter equal to time_cut stays
   tracked). *)
C15_DropsAboveTimeCut ==
    [][(pc = "loop" /\ Forgiving) =>
        LET n == Len(win.hidx)
            bonded(j) == <<win.hidx[j], win.aidx[j]>> \in u.frames[ts']
            upd(j) == IF bonded(j) THEN 0 ELSE win.count[j] + skip * u.dt
            kept == {j \in 1..n : upd(j) <= Val(args.time_cut)}
            pos(j) == Cardinality({i \in kept : i <= j})
        IN /\ Len(win'.hidx) = Cardinality(kept)
           /\ \A j \in kept :
                  /\ win'.hidx[pos(j)] = win.hidx[j]
                  /\ win'.aidx[pos(j)] = win.aidx[j]
                  /\ win'.count[pos(j)] = upd(j)]_vars

(* C15, amended: as above, but exactly the candidates whose counter has
   reached time_cut (is greater than or equal to it) are dropped; only a
   counter strictly below time_cut stays tracked. *)
C15_DropsAtTimeCut ==
    [][(pc = "loop" /\ Forgiving) =>
        LET n == Len(win.hidx)
            bonded(j) == <<win.hidx[j], win.aidx[j]>> \in u.frames[ts']
            upd(j) == IF bonded(j) THEN 0 ELSE win.count[j] + skip * u.dt
            kept == {j \in 1..n : upd(j) < Val(args.time_cut)}
            pos(j) == Cardinality({i \in kept : i <= j})
        IN /\ ts' = FrameAt(win.start, win.i)
           /\ Len(win'.hidx) = Cardinality(kept)
           /\ Len(win'.aidx) = Cardinality(kept)
           /\ Len(win'.count) = Cardinality(kept)
           /\ \A j \in kept :
                  /\ win'.hidx[pos(j)] = win.hidx[j]
                  /\ win'.aidx[pos(j)] = win.aidx[j]
                  /\ win'.count[pos(j)] = upd(j)]_vars

C15_Witness ==
    /\ pc \in {"loop", "norm"} /\ Forgiving /\ win.i >= 2
    /\ Len(win.hidx) < win.nbonds
    /\ \E j \in 1..Len(win.hidx) :
           /\ win.count[j] > 0
           /\ <<win.hidx[j], win.aidx[j]>> \notin u.frames[ts]

(* C16: within a window, in every mode, the tracked set only shrinks: the
   set after a sampled frame is a subset of the set before it and of the
   seed, and the count recorded at a frame is taken over the pairs tracked
   before it, so a dropped pair is never tracked or counted again. *)
C16_TrackedSetOnlyShrinks ==
    [][pc = "loop" =>
        /\ TrackedPairs(win') \subseteq TrackedPairs(win)
        /\ Len(win'.hidx) <= Len(win.hidx)
        /\ TrackedPairs(win) \subseteq
               {p \in u.frames[win.start] : p \notin Excluded}
        /\ win'.results[win.i + 1] =
               <<Cardinality(TrackedPairs(win) \cap u.frames[ts']), 1>>]_vars

C16_Witness ==
    /\ pc \in {"loop", "norm"} /\ Forgiving /\ win.i >= 2
    /\ \E p \in u.frames[win.start] \ Excluded :
           /\ p \notin TrackedPairs(win)
           /\ p \in u.frames[ts]
    /\ win.results[win.i][1] <
           Cardinality(u.frames[win.start] \cap u.frames[ts])

(* C17: in intermittent mode without a time_cut the tracked set after every
   sampled frame of a window is the seed set, nothing being pruned, and the
   value at each frame is the number of seed pairs within both criteria at
   that frame divided by n0. *)
C17_IntermittentKeepsSeed ==
    (pc \in {"loop", "norm", "acc"} /\ Intermittent /\ ~Forgiving) =>
        LET seed == SeedPairs(win.start)
            bonded(k) == Cardinality(
                {j \in 1..Len(seed) :
                     seed[j] \in u.frames[FrameAt(win.start, k - 1)]})
        IN /\ win.nbonds = Len(seed)
           /\ win.hidx = [j \in 1..Len(seed) |-> seed[j][1]]
           /\ win.aidx = [j \in 1..Len(seed) |-> seed[j][2]]
           /\ pc # "acc" =>
                  \A k \in 1..win.nproc : win.results[k] = <<bonded(k), 1>>
           /\ pc = "acc" =>
                  \A k \in 1..Len(win.results) :
                      win.results[k] = DivF(<<bonded(k), 1>>, win.nbonds)

C17_Witness ==
    /\ Returned /\ Intermittent /\ ~Forgiving
    /\ win.nbonds >= 2 /\ Len(win.hidx) = win.nbonds
    /\ \E k \in 2..(Len(win.results) - 1) :
           /\ win.results[k] # One
           /\ LeqF(win.results[k], win.results[k + 1])
           /\ win.results[k] # win.results[k + 1]

(* C18: at every step of a window pass, in every mode, hidx and aidx have
   equal length and position j of both denotes one seed pair, the pairs
   keeping their seed order; with a time_cut the counter sequence has the
   same length and its entry j is the time for which pair j has been out of
   the criteria. *)
C18_TrackedArraysAligned ==
    pc \in {"loop", "norm", "acc"} =>
        LET n == Len(win.hidx)
            seed == SeedPairs(win.start)
            pair(j) == <<win.hidx[j], win.aidx[j]>>
            rank(p) == CHOOSE r \in 1..Len(seed) : seed[r] = p
            fr(t) == u.frames[FrameAt(win.start, t)]
            broken(p) ==
                CHOOSE m \in 0..win.i :
                    /\ \A t \in (win.i - m)..(win.i - 1) : p \notin fr(t)
                    /\ m = win.i \/ p \in fr(win.i - m - 1)
        IN /\ Len(win.aidx) = n
           /\ \A j \in 1..n : \E r \in 1..Len(seed) : seed[r] = pair(j)
           /\ \A j \in 1..(n - 1) : rank(pair(j)) < rank(pair(j + 1))
           /\ Forgiving =>
                  /\ Len(win.count) = n
                  /\ \A j \in 1..n :
                         win.count[j] = broken(pair(j)) * skip * u.dt

C18_Witness ==
    /\ pc = "loop" /\ Forgiving /\ win.i >= 2
    /\ Len(win.hidx) >= 2 /\ Len(win.hidx) < win.nbonds
    /\ \E j \in 1..Len(win.hidx) :
           /\ <<win.hidx[j], win.aidx[j]>> # SeedPairs(win.start)[j]
           /\ win.count[j] > 0
    /\ \E j \in 1..Len(win.hidx) : win.count[j] = 0

(* C19: no (hydrogen index, acceptor index) pair listed in the exclusions
   is ever in the tracked set of a window, at the seed or at any later
   frame, and none contributes to n0 or to a survival count. *)
C19_ExcludedNeverTracked ==
    (pc \in {"loop", "norm", "acc"} /\ ~IsNone(args.exclusions)) =>
        LET ex == Val(args.exclusions)
            listed == {<<ex[1][j], ex[2][j]>> : j \in 1..Len(ex[1])}
            fr(k) == u.frames[FrameAt(win.start, k - 1)]
        IN /\ TrackedPairs(win) \cap listed = {}
           /\ win.nbonds = Cardinality(fr(1) \ listed)
           /\ pc # "acc" =>
                  \A k \in 1..win.nproc :
                      win.results[k][1] <= Cardinality(fr(k) \ listed)

C19_Witness ==
    /\ pc \in {"loop", "norm"} /\ ~IsNone(args.exclusions) /\ win.i >= 2
    /\ Len(win.hidx) >= 1
    /\ \E j \in 1..Len(Val(args.exclusions)[1]) :
           LET p == <<Val(args.exclusions)[1][j], Val(args.exclusions)[2][j]>>
           IN p \in u.frames[win.start] /\ p \in u.frames[ts]
    /\ win.results[win.i][1] < Cardinality(u.frames[ts])

(* C20: in every state reachable by run, solve and save_results calls,
   failing calls included, results and time are both absent or both
   present, fit, tau and estimate are present only if results is, and
   results once present never becomes absent again. *)
C20_SolutionConsistent ==
    /\ [](/\ IsNone(solution.results) <=> IsNone(solution.time)
          /\ IsNone(solution.results) =>
                 /\ IsNone(solution.fit)
                 /\ IsNone(solution.tau)
                 /\ IsNone(solution.estimate))
    /\ [][~IsNone(solution.results) => ~IsNone(solution'.results)]_vars

C20_Witness ==
    /\ pc = "idle" /\ lastCall = "solve" /\ raised = "TypeError"
    /\ ~IsNone(solution.results) /\ ~IsNone(solution.time)
    /\ ~IsNone(solution.fit) /\ ~IsNone(solution.tau)
    /\ IsNone(solution.estimate)

(* C21: in intermittent mode a time_cut of exactly 0 is treated as no
   time_cut: no counter is kept, no candidate is ever pruned, and the
   window's curve is that of intermittent mode without a time_cut for the
   same seed and geometry. *)
C21_ZeroTimeCutIsNoTimeCut ==
    (pc \in {"loop", "norm", "acc"} /\ Intermittent
         /\ args.time_cut = Some(0)) =>
        LET plain == RunLoop(SeedWindow(win.start, win.stop, None),
                             "intermittent", None)
        IN /\ win.count = << >>
           /\ Len(win.hidx) = win.nbonds
           /\ win.hidx = plain.hidx /\ win.aidx = plain.aidx
           /\ \A k \in 1..win.nproc :
                  pc # "acc" => win.results[k] = plain.results[k]
           /\ pc = "acc" =>
                  win.results =
                      SingleRun(win.start, win.stop, "intermittent", None)

C21_Witness ==
    /\ Returned /\ Intermittent /\ args.time_cut = Some(0)
    /\ win.nbonds >= 2 /\ Len(win.hidx) = win.nbonds /\ win.count = << >>
    /\ \E k \in 2..(Len(win.results) - 1) :
           /\ win.results[k] \notin {One, NaN}
           /\ win.results[k + 1] = One

====
